---------------------------- MODULE Spec2Model ----------------------------
(***************************************************************************)
(* A model of the AGI client library (src/agi.go, the current revision at  *)
(* lines 1-520): session construction with its preamble reader, the        *)
(* command/response exchange with its response grammar, Close, and the     *)
(* FastAGI accept loop of Listen.                                          *)
(*                                                                         *)
(* Text is modelled as sequences of one-character strings, so that the     *)
(* splitting, trimming, matching and number parsing of the code are        *)
(* computed character by character as the code computes them.  A transport *)
(* is modelled at the granularity of lines: the peer sends lines, a Read   *)
(* of the transport hands the scanner one or more arrived lines.           *)
(***************************************************************************)
EXTENDS Integers, Sequences, FiniteSets, TLC

(***************************************************************************)
(* Bounds of the model.                                                    *)
(***************************************************************************)
MaxConns == 2

MaxCallers == 2

MaxCmds == 2

MaxHandlerCmds == 2

MaxCloses == 4

MaxResLen == 2

MaxPreLines == 3

MaxSetLoggers == 2

(***************************************************************************)
(* Characters and the string functions of the Go library the code uses.    *)
(***************************************************************************)
Digits == {"0", "1", "2", "3", "4", "5", "6", "7", "8", "9"}

Letters ==
    {"a", "b", "c", "d", "e", "f", "g", "h", "i", "j", "k", "l", "m",
     "n", "o", "p", "q", "r", "s", "t", "u", "v", "w", "x", "y", "z",
     "A", "B", "C", "D", "E", "F", "G", "H", "I", "J", "K", "L", "M",
     "N", "O", "P", "Q", "R", "S", "T", "U", "V", "W", "X", "Y", "Z"}

\* \d of the response pattern
IsDigit(c) == c \in Digits

\* [[:alnum:]] of the response pattern
IsAlnum(c) == c \in Digits \cup Letters

\* \s of the response pattern (RE2: tab, newline, form feed, carriage return, space)
IsReSpace(c) == c \in {" ", "\t", "\n", "\f", "\r"}

\* unicode.IsSpace, as strings.TrimSpace uses it, on the characters of the model
IsSpace(c) == c \in {" ", "\t", "\n", "\f", "\r"}

DigitVal(c) ==
    CASE c = "0" -> 0 [] c = "1" -> 1 [] c = "2" -> 2 [] c = "3" -> 3
      [] c = "4" -> 4 [] c = "5" -> 5 [] c = "6" -> 6 [] c = "7" -> 7
      [] c = "8" -> 8 [] c = "9" -> 9

\* s[from:] of Go, with positions counted from 1
Tail_(s, from) == SubSeq(s, from, Len(s))

HasPrefix(s, p) == Len(s) >= Len(p) /\ SubSeq(s, 1, Len(p)) = p

HasSuffix(s, p) == Len(s) >= Len(p) /\ SubSeq(s, Len(s) - Len(p) + 1, Len(s)) = p

TrimPrefix(s, p) == IF HasPrefix(s, p) THEN Tail_(s, Len(p) + 1) ELSE s

TrimSuffix(s, p) == IF HasSuffix(s, p) THEN SubSeq(s, 1, Len(s) - Len(p)) ELSE s

RECURSIVE TrimLeft(_)
TrimLeft(s) ==
    IF s # <<>> /\ IsSpace(Head(s)) THEN TrimLeft(Tail(s)) ELSE s

RECURSIVE TrimRight(_)
TrimRight(s) ==
    IF s # <<>> /\ IsSpace(s[Len(s)]) THEN TrimRight(SubSeq(s, 1, Len(s) - 1)) ELSE s

TrimSpace(s) == TrimRight(TrimLeft(s))

\* strings.Index(s, c) for a one-character separator: 0 when absent
RECURSIVE IndexFrom(_, _, _)
IndexFrom(s, c, i) ==
    IF i > Len(s) THEN 0
    ELSE IF s[i] = c THEN i
    ELSE IndexFrom(s, c, i + 1)

\* strings.SplitN(s, sep, n) for a one-character separator and n > 0:
\* at most n parts, the last one the unsplit remainder
RECURSIVE SplitN(_, _, _)
SplitN(s, sep, n) ==
    LET i == IndexFrom(s, sep, 1) IN
    IF n = 1 \/ i = 0 THEN <<s>>
    ELSE <<SubSeq(s, 1, i - 1)>> \o SplitN(Tail_(s, i + 1), sep, n - 1)

\* strings.Split(s, sep): every separator splits
RECURSIVE Split(_, _)
Split(s, sep) ==
    LET i == IndexFrom(s, sep, 1) IN
    IF i = 0 THEN <<s>>
    ELSE <<SubSeq(s, 1, i - 1)>> \o Split(Tail_(s, i + 1), sep)

\* strings.Join(parts, " ")
RECURSIVE Join(_)
Join(parts) ==
    IF parts = <<>> THEN <<>>
    ELSE IF Len(parts) = 1 THEN parts[1]
    ELSE parts[1] \o <<" ">> \o Join(Tail(parts))

\* strconv.Atoi on a token shorter than 19 characters (the fast path of
\* Atoi: an optional sign, then decimal digits only; the value is 0 on error)
RECURSIVE AtoiDigits(_, _)
AtoiDigits(s, n) ==
    IF s = <<>> THEN [val |-> n, ok |-> TRUE]
    ELSE IF ~IsDigit(Head(s)) THEN [val |-> 0, ok |-> FALSE]
    ELSE AtoiDigits(Tail(s), n * 10 + DigitVal(Head(s)))

Atoi(s) ==
    LET signed == s # <<>> /\ Head(s) \in {"-", "+"}
        body == IF signed THEN Tail(s) ELSE s
        r == AtoiDigits(body, 0)
    IN  IF body = <<>> THEN [val |-> 0, ok |-> FALSE]
        ELSE IF ~r.ok THEN r
        ELSE IF signed /\ Head(s) = "-" THEN [val |-> 0 - r.val, ok |-> TRUE]
        ELSE r

\* bufio.ScanLines hands the line without its terminator: "\n", or "\r\n"
DropCR(line) ==
    IF line # <<>> /\ line[Len(line)] = "\r" THEN SubSeq(line, 1, Len(line) - 1)
    ELSE line

(***************************************************************************)
(* The response grammar (responseRegex) and the Response a Command builds. *)
(***************************************************************************)
ResultEq == <<"r", "e", "s", "u", "l", "t", "=">>

HangupWord == <<"H", "A", "N", "G", "U", "P">>

StatusOK == 200

\* the first position from i on that holds no alphanumeric character
RECURSIVE AlnumRun(_, _)
AlnumRun(s, i) ==
    IF i <= Len(s) /\ IsAlnum(s[i]) THEN AlnumRun(s, i + 1) ELSE i

\* responseRegex.FindStringSubmatch(raw) for
\*   ^([\d]{3})\sresult=(\-?[[:alnum:]]*)(\s.*)?$
\* ok is FALSE for Go's nil; p1, p2, p3 are the three groups ("" for an
\* unmatched group).  The repetitions are greedy, and no shorter choice of
\* the second group lets the rest match, so the groups are those of the
\* longest sign-and-alphanumerics run.
FindStringSubmatch(raw) ==
    LET n == Len(raw)
        headOK == /\ n >= 11
                  /\ \A i \in 1..3 : IsDigit(raw[i])
                  /\ IsReSpace(raw[4])
                  /\ SubSeq(raw, 5, 11) = ResultEq
        from == IF n >= 12 /\ raw[12] = "-" THEN 13 ELSE 12
        e == AlnumRun(raw, from)
        tailOK == e > n \/ IsReSpace(raw[e])
    IN  IF headOK /\ tailOK
        THEN [ok |-> TRUE, p1 |-> SubSeq(raw, 1, 3), p2 |-> SubSeq(raw, 12, e - 1),
              p3 |-> Tail_(raw, e)]
        ELSE [ok |-> FALSE, p1 |-> <<>>, p2 |-> <<>>, p3 |-> <<>>]

NoError == [kind |-> "nil", text |-> <<>>]

ErrHangup == [kind |-> "hangup", text |-> <<>>]

\* fmt.Errorf("failed to parse result: %s", raw)
ParseError(raw) == [kind |-> "parse", text |-> raw]

\* errors.Wrap(err, "failed to parse result-code as an integer")
ResultCodeError == [kind |-> "resultcode", text |-> <<>>]

\* errors.Wrap(err, "failed to get status code")
StatusCodeError == [kind |-> "statuscode", text |-> <<>>]

\* fmt.Errorf("Non-200 status code")
Non200Error == [kind |-> "status", text |-> <<>>]

\* errors.Wrap(err, "failed to send command")
SendError == [kind |-> "send", text |-> <<>>]

\* resp = &Response{}
ZeroResponse ==
    [Error |-> NoError, Status |-> 0, Result |-> 0, ResultString |-> <<>>,
     Value |-> <<>>]

\* strings.HasPrefix(raw, "HANGUP")
IsHangupNever(raw) == FALSE

IsHangup(raw) == HasPrefix(raw, HangupWord)

\* the value: the third group trimmed, without one leading "(" and one trailing ")"
ParseValue(p3) == TrimSuffix(TrimPrefix(TrimSpace(p3), <<"(">>), <<")">>)

\* the result code: the token kept as text, and as a number when it parses;
\* the error is set and the parse goes on when it does not
ParseResult(resp, token) ==
    LET r == Atoi(token) IN
    [resp EXCEPT !.ResultString = token,
                 !.Result = r.val,
                 !.Error = IF r.ok THEN resp.Error ELSE ResultCodeError]

\* if resp.Status != 200 { resp.Error = ... }
StatusCheckKeepsError(resp) ==
    IF resp.Status # StatusOK /\ resp.Error = NoError
    THEN [resp EXCEPT !.Error = Non200Error] ELSE resp

StatusCheck(resp) ==
    IF resp.Status # StatusOK THEN [resp EXCEPT !.Error = Non200Error] ELSE resp

\* The body of Command from the return of the first s.Scan() to the return of
\* Command: scanned is what Scan returned, raw is s.Text().
ReadResponse(scanned, raw) ==
    IF ~scanned \/ raw = <<>> THEN StatusCheck(ZeroResponse)
    ELSE IF IsHangup(raw) THEN [ZeroResponse EXCEPT !.Error = ErrHangup]
    ELSE LET pieces == FindStringSubmatch(raw)
             st == Atoi(pieces.p1)
         IN  IF ~pieces.ok THEN [ZeroResponse EXCEPT !.Error = ParseError(raw)]
             ELSE IF ~st.ok
                  THEN [ZeroResponse EXCEPT !.Status = st.val, !.Error = StatusCodeError]
             ELSE StatusCheck(
                    [ParseResult([ZeroResponse EXCEPT !.Status = st.val], pieces.p2)
                        EXCEPT !.Value = ParseValue(pieces.p3)])

(***************************************************************************)
(* The state.  A session is identified with the transport it is built      *)
(* over; transports are numbered 1..MaxConns.                              *)
(***************************************************************************)
VARIABLES
    lpc,        \* where Listen is: "off" (not called), "bind", "accept", "newconn", "returned"
    lerr,       \* what Listen returned: "nil" while it runs, "bind", "accept"
    lsock,      \* the listening socket: "none", "open", "closed"
    backlog,    \* the connections waiting to be accepted, in order
    accepted,   \* the connections Accept returned, in order
    script,     \* per transport: all the lines the peer sends, in order
    future,     \* per transport: the lines the peer has still to send
    fin,        \* per transport: the peer ends the stream after its last line
    inbuf,      \* per transport: the lines that arrived and no Read has taken
    sbuf,       \* per session: the lines the constructor's scanner holds buffered
    built,      \* per session: "none", "scanning" (inside NewWithEAGI), "done"
    Variables,  \* per session: AGI.Variables, a function from keys to values
    conn,       \* per session: a.conn != nil
    owned,      \* per session: NewConn built it (it was given a connection)
    handler,    \* per session: "none", "running" (user code holds the session), "returned"
    invoked,    \* per session: how often the handler was started with it
    mu,         \* per session: the caller holding a.mu, 0 when unlocked
    pc,         \* per session and caller: its position in Command or Close
    ops,        \* per session: the calls its callers have made on it
    cmdString,  \* per session and caller: cmdString of its Command
    raw,        \* per session and caller: raw of its Command
    resp,       \* per session and caller: the Response its last Command returned
    io,         \* per session: the writes and reads done on its transport, in order
    closes,     \* per session: how often net.Conn.Close was called on its connection
    closeLog,   \* per session: what each finished Close returned, in order
    closeRace,  \* per session: a Close began while another Close was running
    logger,     \* per session: a.logger != nil
    deferred,   \* per session and caller: its Command has deferred the log record
    log,        \* per session: the records printed to its logger, in order
    setLog,     \* per session: what each SetLogger returned, in order
    crashed     \* the program has died of a panic

vars ==
    <<lpc, lerr, lsock, backlog, accepted, script, future, fin, inbuf, sbuf, built,
      Variables, conn, owned, handler, invoked, mu, pc, ops, cmdString, raw, resp, io,
      closes, closeLog, closeRace, logger, deferred, log, setLog, crashed>>

listenVars == <<lpc, lerr, lsock, backlog, accepted>>

peerVars == <<script, future, fin>>

buildVars == <<sbuf, built, Variables, handler, invoked>>

logVars == <<logger, deferred, log, setLog>>

cmdVars == <<mu, cmdString, raw, resp, io, logVars, crashed>>

closeVars == <<conn, owned, closes, closeLog, closeRace>>

Conns == 1..MaxConns

Callers == 1..MaxCallers

EmptyMap == [k \in {} |-> <<>>]

\* m[key] = val of a Go map
MapSet(m, key, val) ==
    [k \in (DOMAIN m) \cup {key} |-> IF k = key THEN val ELSE m[k]]

(***************************************************************************)
(* Reading lines.  A bufio.Scanner hands out the lines it holds buffered;  *)
(* with none buffered it Reads the transport, which blocks until something *)
(* arrived or the stream ended, and hands over some of what arrived.  The  *)
(* lines a scanner still holds when it is dropped are gone.                *)
(***************************************************************************)
\* the connection was closed on this side: its Read and Write fail
ClosedHere(s) == closes[s] > 0

\* s.Scan() returns (it does not block)
CanScan(s, buf) ==
    \/ buf # <<>>
    \/ ClosedHere(s)
    \/ inbuf[s] # <<>>
    \/ future[s] = <<>> /\ fin[s]

\* The outcomes of one s.Scan() with buf buffered: ok is what Scan returns,
\* text is s.Text(), buf is what stays buffered, rest is what stays unread
\* on the transport.
ScanOutcomes(s, buf) ==
    IF buf # <<>>
    THEN {[ok |-> TRUE, text |-> DropCR(Head(buf)), buf |-> Tail(buf), rest |-> inbuf[s]]}
    ELSE IF ClosedHere(s) \/ inbuf[s] = <<>>
    THEN {[ok |-> FALSE, text |-> <<>>, buf |-> <<>>, rest |-> inbuf[s]]}
    ELSE {[ok |-> TRUE, text |-> DropCR(inbuf[s][1]),
           buf |-> SubSeq(inbuf[s], 2, j), rest |-> Tail_(inbuf[s], j + 1)]
             : j \in 1..Len(inbuf[s])}

(***************************************************************************)
(* The peer.                                                               *)
(***************************************************************************)
\* a client connects to the listening socket; the connections are numbered
\* in the order in which they are made
Connect(c) ==
    /\ lsock = "open"
    /\ c = Len(backlog) + Len(accepted) + 1
    /\ backlog' = Append(backlog, c)
    /\ UNCHANGED <<lpc, lerr, lsock, accepted>>
    /\ UNCHANGED <<peerVars, inbuf, buildVars, cmdVars, closeVars, pc, ops>>

\* the peer of transport c can send: the transport is a pair of streams the
\* program was started with, or a connection made to the listening socket
Connected(c) ==
    \/ lpc = "off"
    \/ \E i \in 1..Len(backlog) : backlog[i] = c
    \/ \E i \in 1..Len(accepted) : accepted[i] = c

\* the next line of the peer arrives
Deliver(c) ==
    /\ future[c] # <<>>
    /\ Connected(c)
    /\ inbuf' = [inbuf EXCEPT ![c] = Append(@, Head(future[c]))]
    /\ future' = [future EXCEPT ![c] = Tail(@)]
    /\ UNCHANGED <<listenVars, script, fin, buildVars, cmdVars, closeVars, pc, ops>>

(***************************************************************************)
(* NewWithEAGI: the preamble reader.                                       *)
(***************************************************************************)
\* terms := strings.SplitN(s.Text(), ":", 2)
PreambleTermsSplitAll(text) == Split(text, ":")

PreambleTerms(text) == SplitN(text, ":", 2)

\* one line of the preamble stored into the map
StoreLine(m, text) ==
    LET terms == PreambleTerms(text) IN
    IF Len(terms) = 2 THEN MapSet(m, TrimSpace(terms[1]), TrimSpace(terms[2])) ELSE m

\* the loop ends: Scan returned false, or the line is empty
PreambleEndsOnlyAtBlank(o) == o.ok /\ o.text = <<>>

PreambleEndsAtAnyLine(o) == TRUE

PreambleEnds(o) == ~o.ok \/ o.text = <<>>

\* Variables: make(map[string]string): the map the constructor of session s
\* fills is a new one, the session's own
MapOfShared(s) == 1

MapOf(s) == s

\* the for loop of Listen after the go statement: the next l.Accept()
AfterDispatchStopsAtEOF(o) == IF o.ok THEN "accept" ELSE "returned"

AfterDispatch(o) == "accept"

\* One pass of the loop of NewWithEAGI on session s: a Scan, then the line
\* stored, or the loop left and the session returned: to NewConn and the go
\* statement of Listen when Listen is building it, to the program otherwise.
NewScan(s) ==
    /\ ~crashed
    /\ built[s] = "scanning"
    /\ CanScan(s, sbuf[s])
    /\ \E o \in ScanOutcomes(s, sbuf[s]) :
         /\ inbuf' = [inbuf EXCEPT ![s] = o.rest]
         /\ IF PreambleEnds(o)
            THEN /\ sbuf' = [sbuf EXCEPT ![s] = <<>>]
                 /\ built' = [built EXCEPT ![s] = "done"]
                 /\ handler' = [handler EXCEPT ![s] = "running"]
                 /\ invoked' = [invoked EXCEPT ![s] = @ + 1]
                 /\ conn' = [conn EXCEPT ![s] = (lpc = "newconn")]
                 /\ owned' = [owned EXCEPT ![s] = (lpc = "newconn")]
                 /\ lpc' = IF lpc = "newconn" THEN AfterDispatch(o) ELSE lpc
                 /\ UNCHANGED Variables
            ELSE /\ sbuf' = [sbuf EXCEPT ![s] = o.buf]
                 /\ Variables' = [Variables EXCEPT ![MapOf(s)] = StoreLine(@, o.text)]
                 /\ UNCHANGED <<built, handler, invoked, conn, owned, lpc>>
    /\ UNCHANGED <<lerr, lsock, backlog, accepted, peerVars, cmdVars, pc, ops>>
    /\ UNCHANGED <<closes, closeLog, closeRace>>

(***************************************************************************)
(* Command: the exchange of one command and its response.                  *)
(***************************************************************************)
Answer == <<"A", "N", "S", "W", "E", "R">>

GetVariable == <<"G", "E", "T", " ", "V", "A", "R", "I", "A", "B", "L", "E">>

\* the token lists the callers of the model pass to Command
CmdSet == {<<Answer>>, <<GetVariable, <<"x">>>>}

(***************************************************************************)
(* The diagnostic logger: the record a Command prints when it returns.     *)
(***************************************************************************)
DigitChar(d) ==
    CASE d = 0 -> "0" [] d = 1 -> "1" [] d = 2 -> "2" [] d = 3 -> "3"
      [] d = 4 -> "4" [] d = 5 -> "5" [] d = 6 -> "6" [] d = 7 -> "7"
      [] d = 8 -> "8" [] d = 9 -> "9"

\* strconv.Itoa
RECURSIVE Itoa(_)
Itoa(n) ==
    IF n < 0 THEN <<"-">> \o Itoa(0 - n)
    ELSE IF n < 10 THEN <<DigitChar(n)>>
    ELSE Itoa(n \div 10) \o <<DigitChar(n % 10)>>

HangupText ==
    <<"h", "a", "n", "g", "u", "p">>

Non200Text ==
    <<"N", "o", "n", "-", "2", "0", "0", " ", "s", "t", "a", "t", "u", "s",
      " ", "c", "o", "d", "e">>

ParseText ==
    <<"f", "a", "i", "l", "e", "d", " ", "t", "o", " ", "p", "a", "r", "s",
      "e", " ", "r", "e", "s", "u", "l", "t", ":", " ">>

ResultCodeText ==
    <<"f", "a", "i", "l", "e", "d", " ", "t", "o", " ", "p", "a", "r", "s",
      "e", " ", "r", "e", "s", "u", "l", "t", "-", "c", "o", "d", "e", " ",
      "a", "s", " ", "a", "n", " ", "i", "n", "t", "e", "g", "e", "r">>

StatusCodeText ==
    <<"f", "a", "i", "l", "e", "d", " ", "t", "o", " ", "g", "e", "t", " ",
      "s", "t", "a", "t", "u", "s", " ", "c", "o", "d", "e">>

SendText ==
    <<"f", "a", "i", "l", "e", "d", " ", "t", "o", " ", "s", "e", "n", "d",
      " ", "c", "o", "m", "m", "a", "n", "d">>

\* the text of the error of strconv.Atoi(token)
AtoiErrorText(token) ==
    <<"s", "t", "r", "c", "o", "n", "v", ".", "A", "t", "o", "i", ":", " ", "p", "a", "r", "s", "i", "n", "g", " ", "\"">> \o token
      \o <<"\"", ":", " ", "i", "n", "v", "a", "l", "i", "d", " ", "s", "y", "n", "t", "a", "x">>

\* the text of the error the transport of the model gives to a failed Write
WriteErrorText ==
    <<"i", "o", ":", " ", "r", "e", "a", "d", "/", "w", "r", "i", "t", "e",
      " ", "o", "n", " ", "c", "l", "o", "s", "e", "d", " ", "p", "i", "p",
      "e">>

\* errors.Wrap(cause, message).Error()
Wrapped(message, cause) == message \o <<":", " ">> \o cause

\* resp.Error.Error()
ErrorText(r) ==
    CASE r.Error.kind = "hangup" -> HangupText
      [] r.Error.kind = "status" -> Non200Text
      [] r.Error.kind = "parse" -> ParseText \o r.Error.text
      [] r.Error.kind = "resultcode" ->
           Wrapped(ResultCodeText, AtoiErrorText(r.ResultString))
      [] r.Error.kind = "statuscode" -> Wrapped(StatusCodeText, AtoiErrorText(<<>>))
      [] r.Error.kind = "send" -> Wrapped(SendText, WriteErrorText)

\* resString of the deferred function
ResString(r) ==
    LET fields ==
          IF r.Error = NoError
          THEN <<" ", "S", "t", "a", ":">> \o Itoa(r.Status)
                 \o <<" ", "R", "e", "s", ":">> \o Itoa(r.Result)
                 \o (IF r.ResultString # <<>>
                     THEN <<" ", "S", "t", "r", ":">> \o r.ResultString ELSE <<>>)
                 \o (IF r.Value # <<>>
                     THEN <<" ", "V", "a", "l", ":">> \o r.Value ELSE <<>>)
          ELSE <<" ", "E", "r", "r", ":">> \o ErrorText(r)
    IN  <<"{">> \o TrimSpace(fields) \o <<"}">>

\* a.logger.Printf("#%s -> %s -> %s", cmdString, raw, resString)
LogLine(cmd, line, r) ==
    <<"#">> \o cmd \o <<" ", "-", ">", " ">> \o line \o <<" ", "-", ">", " ">>
      \o ResString(r)

\* the deferred function changes nothing of the Response it prints
ResponseAfterLogLosesError(r) == [r EXCEPT !.Error = NoError]

ResponseAfterLog(r) == r

\* What Command returns to caller k of session s: r, when it deferred no
\* record; with a record deferred, the record is printed first, to the
\* logger the session holds by then, and a logger detached since makes the
\* call of Printf a nil dereference
Returned(s, k, r) == IF deferred[s][k] THEN ResponseAfterLog(r) ELSE r

LogReturn(s, k, line, r) ==
    IF ~deferred[s][k] THEN UNCHANGED <<log, crashed>>
    ELSE IF logger[s]
    THEN /\ log' = [log EXCEPT ![s] = Append(@, LogLine(cmdString[s][k], line, r))]
         /\ UNCHANGED crashed
    ELSE /\ crashed' = TRUE
         /\ UNCHANGED log

\* defer a.mu.Unlock(): the lock when Command has returned r to caller k
MuAfterReturnHeldAtHangup(k, r) == IF r.Error = ErrHangup THEN k ELSE 0

MuAfterReturn(k, r) == 0

\* a.mu.Lock() returns: a.mu is the session's own lock
LockFreeWhenAllAre(s) == \A t \in Conns : mu[t] = 0

LockFreeAlways(s) == TRUE

LockFree(s) == mu[s] = 0

\* the calls made on the sessions 1..n
RECURSIVE CallsOn(_)
CallsOn(n) == IF n = 0 THEN 0 ELSE ops[n] + CallsOn(n - 1)

\* Command up to the write: the response made, the tokens joined, the lock
\* taken.  The calls of the model are bounded: MaxCmds on a session the
\* program built itself, MaxHandlerCmds by the handlers of Listen together.
CmdLock(s, k, cmd) ==
    /\ ~crashed
    /\ handler[s] = "running"
    /\ pc[s][k] = "idle"
    /\ IF lpc = "off" THEN ops[s] < MaxCmds ELSE CallsOn(MaxConns) < MaxHandlerCmds
    /\ LockFree(s)
    /\ cmdString' = [cmdString EXCEPT ![s][k] = Join(cmd)]
    /\ resp' = [resp EXCEPT ![s][k] = ZeroResponse]
    /\ raw' = [raw EXCEPT ![s][k] = <<>>]
    /\ mu' = [mu EXCEPT ![s] = k]
    /\ pc' = [pc EXCEPT ![s][k] = "write"]
    /\ ops' = [ops EXCEPT ![s] = @ + 1]
    /\ deferred' = [deferred EXCEPT ![s][k] = logger[s]]
    /\ UNCHANGED <<listenVars, peerVars, inbuf, buildVars, io, closeVars>>
    /\ UNCHANGED <<logger, log, setLog, crashed>>

\* if err != nil { resp.Error = ...; return } after the Write: where Command
\* goes on
AfterWriteAlwaysReads(ok) == "read"

AfterWrite(ok) == IF ok THEN "read" ELSE "idle"

\* a.w.Write([]byte(cmdString + "\n")): it fails on a connection closed on
\* this side and may fail on any transport; on failure Command returns
CmdWrite(s, k) ==
    /\ ~crashed
    /\ pc[s][k] = "write"
    /\ \E ok \in BOOLEAN :
         /\ ok => ~ClosedHere(s)
         /\ io' = [io EXCEPT ![s] = Append(@,
                      [op |-> "w", by |-> k, ok |-> ok,
                       data |-> cmdString[s][k] \o <<"\n">>])]
         /\ pc' = [pc EXCEPT ![s][k] = AfterWrite(ok)]
         /\ IF AfterWrite(ok) = "read"
            THEN UNCHANGED <<resp, mu, log, crashed>>
            ELSE \E r \in {[resp[s][k] EXCEPT !.Error = SendError]} :
                 /\ resp' = [resp EXCEPT ![s][k] = Returned(s, k, r)]
                 /\ LogReturn(s, k, raw[s][k], r)
                 /\ mu' = [mu EXCEPT ![s] = MuAfterReturn(k, r)]
    /\ UNCHANGED <<listenVars, peerVars, inbuf, buildVars, cmdString, raw>>
    /\ UNCHANGED <<closeVars, ops, logger, deferred, setLog>>

\* the read loop of Command stores nothing into a.Variables
VariablesAfterReadStored(s, text) == StoreLine(Variables[s], text)

VariablesAfterRead(s, text) == Variables[s]

\* a new scanner, its first Scan, and the rest of Command to its return
CmdRead(s, k) ==
    /\ ~crashed
    /\ pc[s][k] = "read"
    /\ CanScan(s, <<>>)
    /\ \E o \in ScanOutcomes(s, <<>>) :
         /\ inbuf' = [inbuf EXCEPT ![s] = o.rest]
         /\ raw' = [raw EXCEPT ![s][k] = o.text]
         /\ \E r \in {ReadResponse(o.ok, o.text)} :
              /\ resp' = [resp EXCEPT ![s][k] = Returned(s, k, r)]
              /\ LogReturn(s, k, o.text, r)
              /\ mu' = [mu EXCEPT ![s] = MuAfterReturn(k, r)]
         /\ io' = [io EXCEPT ![s] = Append(@,
                      [op |-> "r", by |-> k, ok |-> o.ok, data |-> o.text])]
         /\ Variables' = [Variables EXCEPT ![s] = VariablesAfterRead(s, o.text)]
    /\ pc' = [pc EXCEPT ![s][k] = "idle"]
    /\ UNCHANGED <<listenVars, peerVars, cmdString, closeVars, ops>>
    /\ UNCHANGED <<sbuf, built, handler, invoked>>
    /\ UNCHANGED <<logger, deferred, setLog>>

\* the orders in which a range over a map with the keys S can go
Orders(S) ==
    {p \in [1..Cardinality(S) -> S] : \A i, j \in 1..Cardinality(S) : p[i] = p[j] => i = j}

\* a.logger.Printf("$%s=%s\n", k, v)
VarLine(key, val) == <<"$">> \o key \o <<"=">> \o val \o <<"\n">>

\* SetLogger(l), l a logger (TRUE) or nil (FALSE): a logger is not attached
\* over another one; a logger attached is given the variables, in the order
\* of the range over the map.  It takes no lock.
SetLogger(s, l) ==
    /\ ~crashed
    /\ handler[s] = "running"
    /\ Len(setLog[s]) < MaxSetLoggers
    /\ IF l /\ logger[s]
       THEN /\ setLog' = [setLog EXCEPT ![s] = Append(@, "err")]
            /\ UNCHANGED <<logger, log>>
       ELSE /\ setLog' = [setLog EXCEPT ![s] = Append(@, "nil")]
            /\ logger' = [logger EXCEPT ![s] = l]
            /\ IF l
               THEN \E p \in Orders(DOMAIN Variables[s]) :
                      log' = [log EXCEPT ![s] =
                                @ \o [i \in 1..Len(p) |-> VarLine(p[i], Variables[s][p[i]])]]
               ELSE UNCHANGED log
    /\ UNCHANGED <<listenVars, peerVars, inbuf, buildVars, closeVars, pc, ops>>
    /\ UNCHANGED <<mu, cmdString, raw, resp, io, deferred, crashed>>

(***************************************************************************)
(* Close.  It takes no lock: its test of a.conn, its call of conn.Close    *)
(* and its clearing of a.conn are separate steps of the caller.            *)
(***************************************************************************)
InClose(s, k) == pc[s][k] \in {"close.call", "close.nil", "close.err"}

\* if a.conn != nil
CloseTest(s) == conn[s]

\* a.conn = nil
ConnAfterCloseKept(s) == conn[s]

ConnAfterClose(s) == FALSE

CloseEnter(s, k) ==
    /\ ~crashed
    /\ handler[s] = "running"
    /\ pc[s][k] = "idle"
    /\ ops[s] < MaxCloses
    /\ ops' = [ops EXCEPT ![s] = @ + 1]
    /\ closeRace' = [closeRace EXCEPT ![s] = @ \/ \E j \in Callers : InClose(s, j)]
    /\ IF CloseTest(s)
       THEN /\ pc' = [pc EXCEPT ![s][k] = "close.call"]
            /\ UNCHANGED closeLog
       ELSE /\ closeLog' = [closeLog EXCEPT ![s] = Append(@, "nil")]
            /\ UNCHANGED pc
    /\ UNCHANGED <<listenVars, peerVars, inbuf, buildVars, cmdVars, conn, owned, closes>>

\* err = a.conn.Close(): closing a connection already closed fails.  When
\* another caller has cleared a.conn since the test, this unsynchronized
\* read of a.conn gives the connection still, or nil, and the call on nil
\* is a nil dereference.
CloseCall(s, k) ==
    /\ ~crashed
    /\ pc[s][k] = "close.call"
    /\ \/ /\ closes' = [closes EXCEPT ![s] = @ + 1]
          /\ \E e \in {"close.nil", "close.err"} :
               /\ ClosedHere(s) => e = "close.err"
               /\ pc' = [pc EXCEPT ![s][k] = e]
          /\ UNCHANGED crashed
       \/ /\ ~conn[s]
          /\ crashed' = TRUE
          /\ UNCHANGED <<closes, pc>>
    /\ UNCHANGED <<listenVars, peerVars, inbuf, buildVars>>
    /\ UNCHANGED <<mu, cmdString, raw, resp, io, logVars>>
    /\ UNCHANGED <<conn, owned, closeLog, closeRace, ops>>

\* a.conn = nil; return
CloseClear(s, k) ==
    /\ ~crashed
    /\ pc[s][k] \in {"close.nil", "close.err"}
    /\ conn' = [conn EXCEPT ![s] = ConnAfterClose(s)]
    /\ closeLog' = [closeLog EXCEPT ![s] =
                       Append(@, IF pc[s][k] = "close.nil" THEN "nil" ELSE "err")]
    /\ pc' = [pc EXCEPT ![s][k] = "idle"]
    /\ UNCHANGED <<listenVars, peerVars, inbuf, buildVars, cmdVars>>
    /\ UNCHANGED <<owned, closes, closeRace, ops>>

(***************************************************************************)
(* Listen.                                                                 *)
(***************************************************************************)
\* net.Listen: on failure Listen returns the error
ListenBind ==
    /\ ~crashed
    /\ lpc = "bind"
    /\ \/ lsock' = "open" /\ lpc' = "accept" /\ UNCHANGED lerr
       \/ lerr' = "bind" /\ lpc' = "returned" /\ UNCHANGED lsock
    /\ UNCHANGED <<backlog, accepted>>
    /\ UNCHANGED <<peerVars, inbuf, buildVars, cmdVars, closeVars, pc, ops>>

\* l.Accept() returns a connection, and NewConn(conn) is entered: the
\* operands of the go statement are evaluated by the accept loop itself
Accept ==
    /\ ~crashed
    /\ lpc = "accept"
    /\ backlog # <<>>
    /\ backlog' = Tail(backlog)
    /\ accepted' = Append(accepted, Head(backlog))
    /\ built' = [built EXCEPT ![Head(backlog)] = "scanning"]
    /\ lpc' = "newconn"
    /\ UNCHANGED <<lerr, lsock, peerVars, inbuf, sbuf, Variables, handler, invoked>>
    /\ UNCHANGED <<cmdVars, closeVars, pc, ops>>

\* if err != nil { return ... } after l.Accept()
AfterAcceptErrorRetries == "accept"

AfterAcceptError == "returned"

\* l.Accept() fails: Listen returns the error, the deferred l.Close() runs
AcceptFail ==
    /\ ~crashed
    /\ lpc = "accept"
    /\ lerr' = "accept"
    /\ lsock' = "closed"
    /\ lpc' = AfterAcceptError
    /\ UNCHANGED <<backlog, accepted>>
    /\ UNCHANGED <<peerVars, inbuf, buildVars, cmdVars, closeVars, pc, ops>>

\* the handler Listen started with session s returns, and its goroutine
\* ends; the handlers of the model return early, when a Command has failed
HandlerReturn(s) ==
    /\ ~crashed
    /\ lpc # "off"
    /\ handler[s] = "running"
    /\ \A k \in Callers : pc[s][k] = "idle"
    /\ \E k \in Callers : resp[s][k].Error # NoError
    /\ handler' = [handler EXCEPT ![s] = "returned"]
    /\ UNCHANGED <<listenVars, peerVars, inbuf, sbuf, built, Variables, invoked>>
    /\ UNCHANGED <<cmdVars, closeVars, pc, ops>>

(***************************************************************************)
(* The lines the peers of the model send.                                  *)
(***************************************************************************)
\* all sequences over A of length at most n
Strs(A, n) == UNION {[1..k -> A] : k \in 0..n}

Blank == <<>>

HangupLine == HangupWord

HangupMore == HangupWord \o <<" ", "n", "o", "w">>

Ok0Line == <<"2", "0", "0", " ">> \o ResultEq \o <<"0">>

\* DDD result=R (V)
WellFormed(d, r, v) == d \o <<" ">> \o ResultEq \o r \o <<" ", "(">> \o v \o <<")">>

StatusDigits ==
    {<<"2", "0", "0">>, <<"5", "1", "0">>, <<"5", "1", "1">>, <<"5", "2", "0">>,
     <<"0", "0", "0">>}

\* what stands where the status should, in the lines of the model
StatusTokens == StatusDigits \cup {<<"2", "0">>, <<"2", "0", "x">>, <<"2", "0", "0", "0">>}

ResultTokens == Strs({"-", "7", "a"}, MaxResLen)

\* R of the grammar among them: an optional minus sign, then alphanumerics
GrammarResults ==
    {r \in ResultTokens : \A i \in 1..Len(r) : r[i] = "-" => i = 1}

ValueTexts ==
    {<<>>, <<"v">>, <<"a", " ", "b">>, <<"(", "v", ")">>, <<" ", "v", " ">>}

\* what follows the result token in the other lines of the model
OtherTails ==
    {<<>>, <<"\r">>, <<" ", "v">>, <<"(", "v", ")">>, <<" ", "(", "v">>,
     <<" ", "(", "v", ")", "\r">>, <<"\t", "v", ")">>, <<"=", "1">>}

ResponseLines ==
    {WellFormed(d, r, v) : d \in StatusDigits, r \in GrammarResults, v \in ValueTexts}
      \cup {d \o <<" ">> \o ResultEq \o r \o t :
              d \in StatusTokens, r \in ResultTokens, t \in OtherTails}
      \cup {Blank, <<"\r">>, HangupLine, HangupMore, HangupLine \o <<"\r">>,
            <<" ">> \o HangupLine, <<"h", "a", "n", "g", "u", "p">>,
            <<"n", "o", "t", " ", "a", " ", "r", "e", "s", "p", "o", "n", "s", "e">>,
            <<"2", "0", "0", " ", " ">> \o ResultEq \o <<"0">>,
            <<"2", "0", "0", " ", "R", "e", "s", "u", "l", "t", "=", "0">>,
            <<"2", "0", "0">>}

PreambleLines ==
    {Blank, <<"\r">>,
     <<"k", ":", " ", "1">>,
     <<" ", "k", " ", ":", "2", "\r">>,
     <<"k", ":", "a", ":", "b">>,
     <<"j", ":">>,
     <<"n", "o">>}

\* the preamble a FastAGI peer sends on connection c, and one response
ConnLine(c) == <<"k", ":", " ">> \o <<IF c = 1 THEN "1" ELSE IF c = 2 THEN "2" ELSE "3">>

ConnScripts(c) == {<<ConnLine(c)>>, <<ConnLine(c), Blank, Ok0Line>>}

SessionScripts == Strs({Ok0Line, HangupLine}, MaxCmds)

\* empty lines, then a response
BlankFirstScripts ==
    {<<Blank, Ok0Line>>,
     <<<<"\r">>, Blank, WellFormed(<<"2", "0", "0">>, <<"7">>, <<"v">>)>>}

\* a preamble, its terminator (or none), and what the peer sends after it
LateVariable == <<"k", ":", " ", "9">>

LifeScripts ==
    {<<ConnLine(1), Blank, LateVariable>>,
     <<ConnLine(1), <<"j", ":">>, Blank, Ok0Line, LateVariable>>,
     <<ConnLine(1), Blank, HangupLine, Ok0Line>>,
     <<Blank, Ok0Line, Ok0Line>>,
     <<ConnLine(1), LateVariable>>}

\* what the peers of two sessions used side by side send: responses, the
\* hangup line, a line that is no response
PairScripts ==
    {<<Ok0Line, HangupLine>>, <<LateVariable, Ok0Line>>, <<HangupLine, Ok0Line>>}

(***************************************************************************)
(* The specifications.                                                     *)
(***************************************************************************)
\* nothing built, nothing called
InitIdle ==
    /\ lerr = "nil" /\ lsock = "none" /\ backlog = <<>> /\ accepted = <<>>
    /\ inbuf = [c \in Conns |-> <<>>]
    /\ sbuf = [c \in Conns |-> <<>>]
    /\ Variables = [c \in Conns |-> EmptyMap]
    /\ mu = [c \in Conns |-> 0]
    /\ pc = [c \in Conns |-> [k \in Callers |-> "idle"]]
    /\ ops = [c \in Conns |-> 0]
    /\ cmdString = [c \in Conns |-> [k \in Callers |-> <<>>]]
    /\ raw = [c \in Conns |-> [k \in Callers |-> <<>>]]
    /\ resp = [c \in Conns |-> [k \in Callers |-> ZeroResponse]]
    /\ io = [c \in Conns |-> <<>>]
    /\ closes = [c \in Conns |-> 0]
    /\ closeLog = [c \in Conns |-> <<>>]
    /\ closeRace = [c \in Conns |-> FALSE]
    /\ logger = [c \in Conns |-> FALSE]
    /\ deferred = [c \in Conns |-> [k \in Callers |-> FALSE]]
    /\ log = [c \in Conns |-> <<>>]
    /\ setLog = [c \in Conns |-> <<>>]
    /\ crashed = FALSE

\* transport 1 sends sc, the others nothing
Only1(sc) == [c \in Conns |-> IF c = 1 THEN sc ELSE <<>>]

Is1 == [c \in Conns |-> c = 1]

\* a FastAGI server: Listen is called, clients connect and send their scripts
Init ==
    /\ InitIdle
    /\ lpc = "bind"
    /\ script \in [Conns -> UNION {ConnScripts(c) : c \in Conns}]
    /\ \A c \in Conns : script[c] \in ConnScripts(c)
    /\ future = script
    /\ fin = [c \in Conns |-> TRUE]
    /\ built = [c \in Conns |-> "none"]
    /\ conn = [c \in Conns |-> FALSE]
    /\ owned = [c \in Conns |-> FALSE]
    /\ handler = [c \in Conns |-> "none"]
    /\ invoked = [c \in Conns |-> 0]

Next ==
    \/ ListenBind
    \/ Accept
    \/ AcceptFail
    \/ \E c \in Conns : Connect(c)
    \/ \E c \in Conns : Deliver(c)
    \/ \E c \in Conns : NewScan(c)
    \/ \E c \in Conns : CmdLock(c, 1, <<Answer>>)
    \/ \E c \in Conns : CmdWrite(c, 1)
    \/ \E c \in Conns : CmdRead(c, 1)
    \/ \E c \in Conns : HandlerReturn(c)

Spec == Init /\ [][Next]_vars

\* a session built over transport 1 (by NewConn, or by New), used by
\* several callers at once
InitSession ==
    /\ InitIdle
    /\ lpc = "off"
    /\ \E sc \in SessionScripts : script = Only1(sc)
    /\ future = script
    /\ fin \in {Is1, [c \in Conns |-> FALSE]}
    /\ built = [c \in Conns |-> IF c = 1 THEN "done" ELSE "none"]
    /\ conn = Is1
    /\ owned = conn
    /\ handler = [c \in Conns |-> IF c = 1 THEN "running" ELSE "none"]
    /\ invoked = [c \in Conns |-> IF c = 1 THEN 1 ELSE 0]

NextSession ==
    \/ Deliver(1)
    \/ \E k \in Callers, cmd \in CmdSet : CmdLock(1, k, cmd)
    \/ \E k \in Callers : CmdWrite(1, k)
    \/ \E k \in Callers : CmdRead(1, k)

SpecSession == InitSession /\ [][NextSession]_vars

\* a session built by NewConn, or by New, on which several callers call
\* Close, and Command
InitClose ==
    /\ InitIdle
    /\ lpc = "off"
    /\ script = Only1(<<Ok0Line>>)
    /\ future = script
    /\ fin = [c \in Conns |-> FALSE]
    /\ built = [c \in Conns |-> IF c = 1 THEN "done" ELSE "none"]
    /\ conn \in {Is1, [c \in Conns |-> FALSE]}
    /\ owned = conn
    /\ handler = [c \in Conns |-> IF c = 1 THEN "running" ELSE "none"]
    /\ invoked = [c \in Conns |-> IF c = 1 THEN 1 ELSE 0]

NextClose ==
    \/ Deliver(1)
    \/ \E k \in Callers : CmdLock(1, k, <<Answer>>)
    \/ \E k \in Callers : CmdWrite(1, k)
    \/ \E k \in Callers : CmdRead(1, k)
    \/ \E k \in Callers : CloseEnter(1, k)
    \/ \E k \in Callers : CloseCall(1, k)
    \/ \E k \in Callers : CloseClear(1, k)

SpecClose == InitClose /\ [][NextClose]_vars

\* a session built by New over a pair of streams, one caller, any response
\* line, or empty lines and a response line
InitParse ==
    /\ InitIdle
    /\ lpc = "off"
    /\ \E sc \in {<<>>} \cup {<<l>> : l \in ResponseLines} \cup BlankFirstScripts :
         script = Only1(sc)
    /\ future = script
    /\ fin = [c \in Conns |-> TRUE]
    /\ built = [c \in Conns |-> IF c = 1 THEN "done" ELSE "none"]
    /\ conn = [c \in Conns |-> FALSE]
    /\ owned = conn
    /\ handler = [c \in Conns |-> IF c = 1 THEN "running" ELSE "none"]
    /\ invoked = [c \in Conns |-> IF c = 1 THEN 1 ELSE 0]

NextParse ==
    \/ Deliver(1)
    \/ CmdLock(1, 1, <<Answer>>)
    \/ CmdWrite(1, 1)
    \/ CmdRead(1, 1)

SpecParse == InitParse /\ [][NextParse]_vars

\* New is called on a pair of streams: the preamble reader runs; the peer
\* sends its lines and ends the stream
InitPreamble ==
    /\ InitIdle
    /\ lpc = "off"
    /\ \E sc \in Strs(PreambleLines, MaxPreLines) : script = Only1(sc)
    /\ future = script
    /\ fin = Is1
    /\ built = [c \in Conns |-> IF c = 1 THEN "scanning" ELSE "none"]
    /\ conn = [c \in Conns |-> FALSE]
    /\ owned = conn
    /\ handler = [c \in Conns |-> "none"]
    /\ invoked = [c \in Conns |-> 0]

NextPreamble ==
    \/ Deliver(1)
    \/ NewScan(1)

SpecPreamble == InitPreamble /\ [][NextPreamble]_vars

\* the constructor runs whenever its read can return
SpecPreambleFair == SpecPreamble /\ WF_vars(NewScan(1))

\* the life of one session: New is called on a pair of streams, the session
\* it returns is used for Command, SetLogger and Close; the peer sends its
\* preamble and goes on sending
InitLife ==
    /\ InitIdle
    /\ lpc = "off"
    /\ \E sc \in LifeScripts : script = Only1(sc)
    /\ future = script
    /\ fin = Is1
    /\ built = [c \in Conns |-> IF c = 1 THEN "scanning" ELSE "none"]
    /\ conn = [c \in Conns |-> FALSE]
    /\ owned = conn
    /\ handler = [c \in Conns |-> "none"]
    /\ invoked = [c \in Conns |-> 0]

NextLife ==
    \/ Deliver(1)
    \/ NewScan(1)
    \/ CmdLock(1, 1, <<Answer>>)
    \/ CmdWrite(1, 1)
    \/ CmdRead(1, 1)
    \/ \E l \in BOOLEAN : SetLogger(1, l)
    \/ CloseEnter(1, 2)

SpecLife == InitLife /\ [][NextLife]_vars

\* two sessions built by New over two pairs of streams, whose peers send the
\* same lines; the program attaches a logger to the first before it uses it,
\* and calls Command with the same tokens on both, one caller each
Pair == {1, 2}

InitPair ==
    /\ InitIdle
    /\ lpc = "off"
    /\ \E sc \in PairScripts : script = [c \in Conns |-> IF c \in Pair THEN sc ELSE <<>>]
    /\ future = script
    /\ fin = [c \in Conns |-> c \in Pair]
    /\ built = [c \in Conns |-> IF c \in Pair THEN "done" ELSE "none"]
    /\ conn = [c \in Conns |-> FALSE]
    /\ owned = conn
    /\ handler = [c \in Conns |-> IF c \in Pair THEN "running" ELSE "none"]
    /\ invoked = [c \in Conns |-> IF c \in Pair THEN 1 ELSE 0]

NextPair ==
    \/ \E c \in Pair : Deliver(c)
    \/ ops[1] = 0 /\ SetLogger(1, TRUE)
    \/ \E c \in Pair : CmdLock(c, 1, <<Answer>>)
    \/ \E c \in Pair : CmdWrite(c, 1)
    \/ \E c \in Pair : CmdRead(c, 1)

SpecPair == InitPair /\ [][NextPair]_vars

(***************************************************************************)
(* What the claims speak of, stated without the code's own functions.      *)
(***************************************************************************)
\* the Command of caller k on session s has returned, having read a
\* non-empty line: raw[s][k] is that line, resp[s][k] the Response returned
Answered(s, k) == pc[s][k] = "idle" /\ raw[s][k] # <<>>

\* the number a three-digit text denotes
Num3(d) == 100 * DigitVal(d[1]) + 10 * DigitVal(d[2]) + DigitVal(d[3])

\* r is an optional minus sign followed by alphanumerics
IsResultToken(r) ==
    \A i \in 1..Len(r) : IsAlnum(r[i]) \/ (i = 1 /\ r[i] = "-")

\* The ways to read a line as DDD, one white space, "result=", a result
\* token, and a rest that is empty or begins with white space: the triples
\* <<DDD, token, rest>>.  Empty when the line does not match the grammar.
Readings(line) ==
    {t \in {<<SubSeq(line, 1, 3), SubSeq(line, 12, e - 1), Tail_(line, e)>> :
              e \in 12..(Len(line) + 1)} :
        /\ Len(line) >= 11
        /\ \A i \in 1..3 : IsDigit(line[i])
        /\ IsReSpace(line[4])
        /\ SubSeq(line, 5, 11) = ResultEq
        /\ IsResultToken(t[2])
        /\ t[3] = <<>> \/ IsReSpace(t[3][1])}

\* a line of the peer as text: without the carriage return of a CR LF ending
Chomp(l) == IF l # <<>> /\ l[Len(l)] = "\r" THEN SubSeq(l, 1, Len(l) - 1) ELSE l

Texts(sc) == [i \in 1..Len(sc) |-> Chomp(sc[i])]

SetMin(S) == CHOOSE x \in S : \A y \in S : x <= y

SetMax(S) == CHOOSE x \in S : \A y \in S : x >= y

\* the lines that precede the first empty line, or all of them
BeforeBlank(lines) ==
    LET blanks == {i \in 1..Len(lines) : lines[i] = <<>>} IN
    IF blanks = {} THEN lines ELSE SubSeq(lines, 1, SetMin(blanks) - 1)

Colons(l) == {i \in 1..Len(l) : l[i] = ":"}

\* s without the white space around it
Stripped(s) ==
    LET ink == {i \in 1..Len(s) : ~IsSpace(s[i])} IN
    IF ink = {} THEN <<>> ELSE SubSeq(s, SetMin(ink), SetMax(ink))

KeyOf(l) == Stripped(SubSeq(l, 1, SetMin(Colons(l)) - 1))

ValueOf(l) == Stripped(SubSeq(l, SetMin(Colons(l)) + 1, Len(l)))

\* the map of the lines: key -> value of the last line with that key
EntriesOf(lines) ==
    LET with == {i \in 1..Len(lines) : Colons(lines[i]) # {}}
        keys == {KeyOf(lines[i]) : i \in with}
    IN  [k \in keys |->
           ValueOf(lines[SetMax({i \in with : KeyOf(lines[i]) = k})])]

NoBlank(sc) == \A i \in 1..Len(sc) : Chomp(sc[i]) # <<>>

\* the lines of its script that session c has taken off its transport
Taken(c) == SubSeq(script[c], 1, Len(script[c]) - Len(future[c]) - Len(inbuf[c]))

\* the preamble of c was read to its terminator, or to the end of the stream
PreambleRead(c) ==
    \/ ~NoBlank(Taken(c))
    \/ future[c] = <<>> /\ inbuf[c] = <<>> /\ fin[c]

(***************************************************************************)
(* The claims.                                                             *)
(***************************************************************************)
\* the callers between the start of their write and the end of their read
InFlight(s) == {k \in Callers : pc[s][k] \in {"write", "read"}}

Paired(t) ==
    \A i \in 1..Len(t) :
      /\ t[i].op = "r" =>
           i > 1 /\ t[i - 1].op = "w" /\ t[i - 1].ok /\ t[i - 1].by = t[i].by
      /\ (t[i].op = "w" /\ i > 1) => (t[i - 1].op = "r" \/ ~t[i - 1].ok)

\* C1: with any number of concurrent callers of Command on one session, at
\* most one Command is between the start of its write and the end of its
\* read; on the transport every write is followed by the read of the same
\* caller (unless the write failed) before any other write or read.
C1_CommandsSerialized ==
    \A s \in Conns :
      /\ Cardinality(InFlight(s)) <= 1
      /\ Paired(io[s])
      /\ \A k \in InFlight(s) : mu[s] = k
      /\ \A k \in Callers :
           pc[s][k] = "read" =>
             io[s] # <<>> /\ io[s][Len(io[s])] =
               [op |-> "w", by |-> k, ok |-> TRUE, data |-> cmdString[s][k] \o <<"\n">>]

\* caller 2 has completed an exchange on the session, and caller 1 has
\* written its command and waits for its response
C1_Witness ==
    /\ \E i \in 1..Len(io[1]) : io[1][i].op = "r" /\ io[1][i].by = 2 /\ io[1][i].ok
    /\ pc[1][1] = "read"
    /\ pc[1][2] = "idle"

\* C2: for every line DDD result=R (V), R an optional minus sign followed by
\* alphanumerics (empty and non-numeric R included), Command returns
\* Status = DDD, ResultString = R, Value = V, and no error when DDD = 200.
C2_WellFormedLineParsed ==
    \A s \in Conns, k \in Callers :
      \A d \in StatusDigits, r \in GrammarResults, v \in ValueTexts :
        (Answered(s, k) /\ raw[s][k] = WellFormed(d, r, v)) =>
          /\ resp[s][k].Status = Num3(d)
          /\ resp[s][k].ResultString = r
          /\ resp[s][k].Value = v
          /\ Num3(d) = 200 => resp[s][k].Error = NoError

\* C3: for every line that matches the grammar and whose status is not 200,
\* Command returns the generic non-200 status error, and Status,
\* ResultString and Value hold what the line says.
C3_Non200IsStatusError ==
    \A s \in Conns, k \in Callers :
      Answered(s, k) =>
        \A t \in Readings(raw[s][k]) :
          Num3(t[1]) # 200 =>
            /\ resp[s][k].Error = Non200Error
            /\ resp[s][k].Status = Num3(t[1])
            /\ resp[s][k].ResultString = t[2]
            /\ \A v \in ValueTexts :
                 t[3] = <<" ", "(">> \o v \o <<")">> => resp[s][k].Value = v

\* the line 510 result=a (v), whose result token is no number, was answered
C3_Witness ==
    /\ Answered(1, 1)
    /\ raw[1][1] = WellFormed(<<"5", "1", "0">>, <<"a">>, <<"v">>)
    /\ resp[1][1].Status = 510

\* C4: when the line read is exactly HANGUP, the Response has the error
\* ErrHangup and zero Status, Result, ResultString and Value.
C4_HangupLine ==
    \A s \in Conns, k \in Callers :
      (Answered(s, k) /\ raw[s][k] = HangupLine) =>
        resp[s][k] = [ZeroResponse EXCEPT !.Error = ErrHangup]

C4_Witness == Answered(1, 1) /\ raw[1][1] = HangupLine /\ script[1] = <<HangupLine>>

\* C5: when the line read is not empty, is not the hangup sentinel HANGUP and
\* does not match the grammar, the Response has a parse error carrying the
\* line, and zero Status, Result, ResultString and Value.
C5_UnmatchedLineIsParseError ==
    \A s \in Conns, k \in Callers :
      (Answered(s, k) /\ raw[s][k] # HangupLine /\ Readings(raw[s][k]) = {}) =>
        resp[s][k] = [ZeroResponse EXCEPT !.Error = ParseError(raw[s][k])]

\* C6: after construction Variables is the map of the lines that precede the
\* first empty line (or the end of the stream): each line with a colon gives
\* trimmed text before its first colon -> trimmed text after it, a later
\* line with the same key overwrites, a line with no colon gives nothing.
C6_VariablesArePreamble ==
    \A s \in Conns :
      built[s] = "done" => Variables[s] = EntriesOf(BeforeBlank(Texts(script[s])))

\* a preamble with a repeated key, whose last value holds a colon, and its
\* terminator
C6_Witness ==
    /\ built[1] = "done"
    /\ script[1] = <<<<"k", ":", " ", "1">>, <<"k", ":", "a", ":", "b">>, Blank>>
    /\ Variables[1] = [x \in {<<"k">>} |-> <<"a", ":", "b">>]

\* C7: when the stream ends before any empty line, construction still
\* returns a session, whose Variables are the entries of all the lines read.
C7_EndOfStreamEndsPreamble ==
    [](( /\ built[1] = "scanning"
         /\ NoBlank(script[1])
         /\ future[1] = <<>>
         /\ fin[1] )
       => <>(built[1] = "done" /\ Variables[1] = EntriesOf(Texts(script[1]))))

C7_Witness ==
    /\ built[1] = "done"
    /\ handler[1] = "running"
    /\ NoBlank(script[1])
    /\ Len(script[1]) = 2
    /\ DOMAIN Variables[1] = {<<"k">>, <<"j">>}

\* C8: over Close calls made one after another on a session that owns a
\* connection, the connection's Close is called exactly once, by the first
\* call; every later Close returns nil, whatever the first returned.  On a
\* session without a connection Close calls nothing and returns nil.
C8_CloseOnce ==
    \A s \in Conns :
      ~closeRace[s] =>
        /\ closes[s] <= 1
        /\ (owned[s] /\ closeLog[s] # <<>>) => (closes[s] = 1 /\ ~conn[s])
        /\ \A i \in 2..Len(closeLog[s]) : closeLog[s][i] = "nil"
        /\ ~owned[s] => (closes[s] = 0 /\ \A i \in 1..Len(closeLog[s]) : closeLog[s][i] = "nil")

\* three Close calls in a row, the first of which failed
C8_Witness ==
    /\ ~closeRace[1]
    /\ owned[1]
    /\ closeLog[1] = <<"err", "nil", "nil">>
    /\ closes[1] = 1

\* C9: for every accepted connection one session is built and the handler is
\* started once with it, only after its preamble was read to the terminator
\* or the end of the stream; the handlers run while the accept loop and the
\* other handlers run.
C9_OneHandlerPerConnection ==
    /\ \A i, j \in 1..Len(accepted) : accepted[i] = accepted[j] => i = j
    /\ \A c \in Conns :
         /\ invoked[c] <= 1
         /\ invoked[c] = 1 <=> handler[c] # "none"
         /\ built[c] # "none" <=> \E i \in 1..Len(accepted) : accepted[i] = c
         /\ handler[c] # "none" =>
              built[c] = "done" /\ owned[c] /\ PreambleRead(c)
         /\ built[c] = "done" => handler[c] # "none"
         /\ built[c] = "scanning" =>
              lpc = "newconn" /\ accepted[Len(accepted)] = c

\* the handlers of two connections are both inside a Command while Listen
\* waits in Accept
C9_Witness ==
    /\ lpc = "accept"
    /\ pc[1][1] = "read"
    /\ pc[2][1] = "read"
    /\ invoked[1] = 1
    /\ invoked[2] = 1

\* C10: the accept loop blocks only in Accept: while an accepted connection
\* has delivered neither its preamble terminator nor the end of its stream,
\* Listen still accepts the next pending connection.
C10_AcceptNotHeldByPreamble ==
    \A c \in Conns :
      ( /\ built[c] = "scanning"
        /\ ~CanScan(c, sbuf[c])
        /\ backlog # <<>> )
      => ENABLED Accept

\* the entries <<key, value>> the lines of a preamble give, one by one
LineEntries(lines) ==
    {<<KeyOf(lines[i]), ValueOf(lines[i])>> :
       i \in {j \in 1..Len(lines) : Colons(lines[j]) # {}}}

\* the preamble connection c sends
PreambleOf(c) == BeforeBlank(Texts(script[c]))

\* C11: the sessions Listen builds from two accepted connections have
\* independent Variables: at any time every entry of a session's map comes
\* from a line of its own connection's preamble, and once the session is
\* built its map is exactly the map of its own preamble.
C11_IndependentVariables ==
    \A c \in Conns :
      /\ \A key \in DOMAIN Variables[c] :
           <<key, Variables[c][key]>> \in LineEntries(PreambleOf(c))
      /\ built[c] = "done" => Variables[c] = EntriesOf(PreambleOf(c))

\* two sessions built by Listen, whose preambles give the same key two
\* different values
C11_Witness ==
    /\ built[1] = "done" /\ built[2] = "done"
    /\ handler[1] = "running" /\ handler[2] = "running"
    /\ Variables[1] = [x \in {<<"k">>} |-> <<"1">>]
    /\ Variables[2] = [x \in {<<"k">>} |-> <<"2">>]

\* what Listen has done so far: the connections it accepted, the sessions it
\* began or finished to build, the handlers it started
Dispatched == <<accepted, built, invoked>>

\* C12: Listen returns only with a non-nil error, for a failed bind or a
\* failed accept.  After a failed accept the listening socket is closed, and
\* from then on Listen accepts no connection, builds no session and starts
\* no handler (the accept is not retried).  After a failed bind there is no
\* socket, and no connection was ever accepted nor any handler started.
C12_ListenFailureIsFatal ==
    /\ [](lpc = "returned" <=> lerr # "nil")
    /\ [](lerr = "accept" => lsock = "closed")
    /\ [](lerr = "bind" =>
            /\ lsock = "none" /\ accepted = <<>> /\ backlog = <<>>
            /\ \A c \in Conns : built[c] = "none" /\ invoked[c] = 0)
    /\ [][lerr # "nil" =>
            /\ Dispatched' = Dispatched
            /\ <<lpc, lerr, lsock>>' = <<lpc, lerr, lsock>>]_vars

\* the accept failed after one handler was started, with a second connection
\* waiting to be accepted, whose peer has sent its preamble
C12_Witness ==
    /\ lerr = "accept" /\ lpc = "returned" /\ lsock = "closed"
    /\ accepted = <<1>> /\ backlog = <<2>>
    /\ invoked[1] = 1 /\ invoked[2] = 0
    /\ inbuf[2] # <<>>

\* connection c failed: its stream ended during the preamble, or a Command
\* of its handler returned an error, or its handler has returned
EndedInPreamble(c) == built[c] = "done" /\ NoBlank(Taken(c))

CommandFailed(c) ==
    \E k \in Callers : pc[c][k] = "idle" /\ resp[c][k].Error # NoError

Failed(c) == EndedInPreamble(c) \/ CommandFailed(c) \/ handler[c] = "returned"

\* C13: the failure of a connection or of its handler does not stop the
\* accept loop: with failed connections, and no bind or accept failure,
\* Listen is still in its loop, accepts the next pending connection when it
\* is at Accept, and finishes the session it is building when its read
\* returns; no connection is accepted twice and no handler started twice.
C13_LoopSurvivesConnectionFailure ==
    /\ \A i, j \in 1..Len(accepted) : accepted[i] = accepted[j] => i = j
    /\ \A c \in Conns : invoked[c] <= 1
    /\ ((\E c \in Conns : Failed(c)) /\ lerr = "nil") =>
         /\ lpc \in {"accept", "newconn"}
         /\ (lpc = "accept" /\ backlog # <<>>) => ENABLED Accept
         /\ \A d \in Conns :
              (built[d] = "scanning" /\ CanScan(d, sbuf[d])) => ENABLED NewScan(d)

\* the stream of connection 1 ended during its preamble, the Command of its
\* handler failed and the handler returned; the handler of connection 2 runs
C13_Witness ==
    /\ EndedInPreamble(1) /\ CommandFailed(1) /\ ops[1] = 1 /\ handler[1] = "returned"
    /\ accepted = <<1, 2>>
    /\ handler[2] = "running" /\ invoked[2] = 1 /\ invoked[1] = 1
    /\ lpc = "accept" /\ lerr = "nil"

\* the last thing done on the transport of session s
LastIO(s) == io[s][Len(io[s])]

Writes(s) == {i \in 1..Len(io[s]) : io[s][i].op = "w"}

Reads(s) == {i \in 1..Len(io[s]) : io[s][i].op = "r"}

\* C14: when the write of the command line fails, Command returns at once a
\* Response whose only content is the error of the failed send; nothing is
\* read and nothing written again by that call (what follows a failed write
\* on the transport is the write of another Command), and the lock is
\* released: with no call in progress the lock is free.
C14_WriteFailureReturns ==
    \A s \in Conns :
      /\ \A i \in Writes(s) :
           (~io[s][i].ok /\ i < Len(io[s])) => io[s][i + 1].op = "w"
      /\ (io[s] # <<>> /\ LastIO(s).op = "w" /\ ~LastIO(s).ok) =>
           LET k == LastIO(s).by IN
           /\ pc[s][k] \in {"idle", "write"}
           /\ pc[s][k] = "idle" =>
                /\ resp[s][k] = [ZeroResponse EXCEPT !.Error = SendError]
                /\ mu[s] # k
           /\ (\A j \in Callers : pc[s][j] = "idle") => mu[s] = 0

\* the write of caller 1 failed, and the next Command of caller 1 on the
\* session has written and read
C14_Witness ==
    /\ Len(io[1]) = 3
    /\ io[1][1].op = "w" /\ ~io[1][1].ok /\ io[1][1].by = 1
    /\ io[1][2].op = "w" /\ io[1][2].ok /\ io[1][2].by = 1
    /\ io[1][3].op = "r" /\ io[1][3].ok
    /\ resp[1][1].Error = NoError

\* the command lines of the model: the tokens, single spaces between them,
\* one newline
CommandLines == {Answer \o <<"\n">>, GetVariable \o <<" ", "x", "\n">>}

\* C15: every Command call writes once, the tokens joined by single spaces
\* and a newline, and takes at most one line off the input stream: the
\* writes are as many as the calls that have reached their write, the reads
\* at most as many as the writes that succeeded, and the lines taken off
\* the stream at most as many as the reads.
C15_OneWriteOneLine ==
    \A s \in Conns :
      /\ Cardinality(Writes(s)) + Cardinality({k \in Callers : pc[s][k] = "write"})
           = ops[s]
      /\ \A i \in Writes(s) : io[s][i].data \in CommandLines
      /\ Cardinality(Reads(s)) <= Cardinality({i \in Writes(s) : io[s][i].ok})
      /\ Len(Taken(s)) <= Cardinality(Reads(s))

\* the first Command on session s, made by caller k, has returned after a
\* read that gave it a line
FirstAnswered(s, k) ==
    /\ ops[s] = 1 /\ pc[s][k] = "idle"
    /\ io[s] # <<>> /\ LastIO(s).op = "r" /\ LastIO(s).ok /\ LastIO(s).by = k

NonEmptyAt(lines) == {i \in 1..Len(lines) : lines[i] # <<>>}

\* r is a decimal number: digits, after an optional minus sign
NumericToken(r) ==
    LET body == IF r # <<>> /\ r[1] = "-" THEN Tail(r) ELSE r IN
    body # <<>> /\ \A i \in 1..Len(body) : IsDigit(body[i])

\* C16: when empty lines precede a well-formed response line on the input
\* stream, the first Command skips them and returns the Response of the
\* first non-empty line: its status, its result token, and no error for
\* status 200 with a numeric result.
C16_SkipsEmptyLines ==
    \A s \in Conns, k \in Callers :
      LET lines == Texts(script[s]) IN
      (FirstAnswered(s, k) /\ lines[1] = <<>> /\ NonEmptyAt(lines) # {}) =>
        \A t \in Readings(lines[SetMin(NonEmptyAt(lines))]) :
          /\ resp[s][k].Status = Num3(t[1])
          /\ resp[s][k].ResultString = t[2]
          /\ (Num3(t[1]) = 200 /\ NumericToken(t[2])) => resp[s][k].Error = NoError

\* C17: for a line that matches the grammar and whose result token is no
\* number (empty, a lone minus sign, with letters), Result is 0,
\* ResultString the token, Value the text in the parentheses, and Error
\* depends on the status alone: none for 200, the non-200 error otherwise.
C17_NonNumericResultIsNoFailure ==
    \A s \in Conns, k \in Callers :
      Answered(s, k) =>
        \A t \in Readings(raw[s][k]) :
          ~NumericToken(t[2]) =>
            /\ resp[s][k].Result = 0
            /\ resp[s][k].ResultString = t[2]
            /\ \A v \in ValueTexts :
                 t[3] = <<" ", "(">> \o v \o <<")">> => resp[s][k].Value = v
            /\ resp[s][k].Error = IF Num3(t[1]) = 200 THEN NoError ELSE Non200Error

\* the line begins with HANGUP and goes on
HangupAndMore(line) ==
    Len(line) > Len(HangupLine) /\ SubSeq(line, 1, Len(HangupLine)) = HangupLine

\* C18: a line that begins with HANGUP and has further content, or that is
\* hangup in another case, goes through the grammar and gives the parse
\* error carrying the line, never the hangup outcome.
C18_OnlyExactHangup ==
    \A s \in Conns, k \in Callers :
      ( /\ Answered(s, k)
        /\ \/ HangupAndMore(raw[s][k])
           \/ raw[s][k] = <<"h", "a", "n", "g", "u", "p">> ) =>
        resp[s][k] = [ZeroResponse EXCEPT !.Error = ParseError(raw[s][k])]

\* the value of a trailing segment: the text between the parentheses when
\* the segment begins with "(" and ends with ")", empty otherwise
Enclosed(seg) ==
    IF Len(seg) >= 2 /\ seg[1] = "(" /\ seg[Len(seg)] = ")"
    THEN SubSeq(seg, 2, Len(seg) - 1) ELSE <<>>

\* C19: for a line that matches the grammar, Value is the text enclosed in
\* parentheses when the trailing segment begins with "(" and ends with ")",
\* and empty for any other trailing segment.
C19_ValueOnlyInParentheses ==
    \A s \in Conns, k \in Callers :
      Answered(s, k) =>
        \A t \in Readings(raw[s][k]) :
          resp[s][k].Value = Enclosed(Stripped(t[3]))

\* C20: when the read of the response fails, or the stream ends before a
\* line is there, the Response carries an error that reports the read
\* failure: it is neither nil nor the generic non-200 status error.
C20_ReadFailureIsTransportError ==
    \A s \in Conns, k \in Callers :
      ( /\ pc[s][k] = "idle" /\ io[s] # <<>>
        /\ LastIO(s).op = "r" /\ ~LastIO(s).ok /\ LastIO(s).by = k ) =>
        /\ resp[s][k].Error # NoError
        /\ resp[s][k].Error # Non200Error

\* session s is in the hands of the program: it was returned, or something
\* was called on it
InUse(s) ==
    \/ handler[s] # "none" \/ ops[s] > 0 \/ setLog[s] # <<>> \/ closeLog[s] # <<>>
    \/ \E k \in Callers : pc[s][k] # "idle"

\* C21: Variables is filled only while the session is constructed, and the
\* construction is over before the session is used: any step that changes a
\* map is a step of a session under construction, and once the session is
\* built (Command, Close, SetLogger follow) its map never changes, whatever
\* arrives on the input stream.
C21_VariablesOnlyAtConstruction ==
    /\ [](\A s \in Conns : InUse(s) => built[s] = "done")
    /\ [][\A s \in Conns :
            /\ Variables'[s] # Variables[s] => built[s] = "scanning"
            /\ built[s] = "done" => Variables'[s] = Variables[s]]_vars

\* after the preamble k: 1 and its terminator, a Command has read the line
\* k: 9, a logger was attached and Close was called
C21_Witness ==
    /\ built[1] = "done"
    /\ script[1] = <<ConnLine(1), Blank, LateVariable>>
    /\ pc[1][1] = "idle" /\ raw[1][1] = LateVariable
    /\ setLog[1] # <<>> /\ closeLog[1] # <<>>
    /\ Variables[1] = [x \in {<<"k">>} |-> <<"1">>]

\* what the transport of session s did so far: whether each write went
\* through, what each read gave, and what is left of the input
TransportBehaviour(s) ==
    <<[i \in 1..Len(io[s]) |->
         IF io[s][i].op = "w" THEN <<"w", io[s][i].ok>>
         ELSE <<"r", io[s][i].ok, io[s][i].data>>],
      inbuf[s], future[s]>>

\* the bytes session s wrote, write by write
Written(s) == [i \in 1..Len(io[s]) |-> IF io[s][i].op = "w" THEN io[s][i].data ELSE <<>>]

\* the Command of caller k on session s returns in this step
Returns(s, k) == pc[s][k] \in {"write", "read"} /\ pc'[s][k] = "idle"

\* the start of the record of a Command: "#", the command, " -> ", the line
RecordHead(cmd, line) == <<"#">> \o cmd \o <<" ", "-", ">", " ">> \o line

Begins(text, head) == Len(text) >= Len(head) /\ SubSeq(text, 1, Len(head)) = head

\* C22: a logger does not change what Command does: with the same tokens
\* and the same behaviour of the transport, the session with a logger
\* (1) and the session without (2) have written the same bytes and their
\* Commands returned the same Response and read the same line.  A Command
\* that began and ends with a logger attached prints exactly one record,
\* when it returns, carrying its command and the line it read, whatever the
\* outcome; nothing else but SetLogger prints, and without a logger
\* nothing is printed.
C22_LoggerIsTransparent ==
    /\ [](( /\ pc[1][1] = "idle" /\ pc[2][1] = "idle"
            /\ ops[1] = ops[2]
            /\ TransportBehaviour(1) = TransportBehaviour(2) )
          => /\ resp[1][1] = resp[2][1]
             /\ raw[1][1] = raw[2][1]
             /\ Written(1) = Written(2))
    /\ [](log[2] = <<>>)
    /\ [][\A s \in Conns :
            /\ \A k \in Callers :
                 (Returns(s, k) /\ deferred[s][k] /\ logger[s]) =>
                   /\ Len(log'[s]) = Len(log[s]) + 1
                   /\ SubSeq(log'[s], 1, Len(log[s])) = log[s]
                   /\ Begins(log'[s][Len(log'[s])],
                             RecordHead(cmdString[s][k], raw'[s][k]))
            /\ (log'[s] # log[s]) =>
                 \/ \E k \in Callers : Returns(s, k) /\ deferred[s][k]
                 \/ setLog'[s] # setLog[s]]_vars

\* with a logger attached before the first Command, both sessions met a
\* failed write and then the hangup line; the logged session printed a
\* record for each of its two Commands
C22_Witness ==
    /\ logger[1] /\ setLog[1] = <<"nil">>
    /\ pc[1][1] = "idle" /\ pc[2][1] = "idle"
    /\ ops[1] = 2 /\ ops[2] = 2
    /\ TransportBehaviour(1) = TransportBehaviour(2)
    /\ Len(io[1]) = 3 /\ ~io[1][1].ok
    /\ resp[1][1].Error = ErrHangup /\ resp[2][1].Error = ErrHangup
    /\ Len(log[1]) = 2

\* C26: sessions do not wait for each other: while a Command holds the lock
\* of one session, waiting for its write or its response, a caller of
\* another session takes that session's lock, writes, reads and returns
\* whenever its own session and transport allow it.
C26_SessionsIndependent ==
    \A s \in Pair, t \in Pair :
      (s # t /\ mu[s] # 0 /\ ~crashed) =>
        /\ (pc[t][1] = "idle" /\ ops[t] < MaxCmds) => ENABLED CmdLock(t, 1, <<Answer>>)
        /\ pc[t][1] = "write" => ENABLED CmdWrite(t, 1)
        /\ (pc[t][1] = "read" /\ CanScan(t, <<>>)) => ENABLED CmdRead(t, 1)

\* the Command on session 1 waits for a response that has not arrived, and
\* holds the lock of session 1; on session 2 two Commands have returned
C26_Witness ==
    /\ pc[1][1] = "read" /\ mu[1] = 1 /\ ~CanScan(1, <<>>)
    /\ ops[1] = 1
    /\ ops[2] = 2 /\ pc[2][1] = "idle" /\ mu[2] = 0
    /\ resp[2][1].Error = NoError

\* C23: the lock of a session is held exactly while a Command on it is
\* between taking the lock and its return, by the caller of that Command:
\* every return (write failure, hangup, parse failure, empty line or end of
\* stream, non-200 status, success) releases it, and with every Command
\* returned a new Command takes the lock.
C23_LockHeldOnlyInCommand ==
    \A s \in Conns :
      /\ mu[s] # 0 <=> InFlight(s) # {}
      /\ mu[s] # 0 => mu[s] \in InFlight(s)
      /\ ( /\ InFlight(s) = {} /\ handler[s] = "running"
           /\ ops[s] < MaxCmds /\ ~crashed ) =>
           ENABLED CmdLock(s, 1, <<Answer>>)

\* the first Command read a line that is no response and returned the
\* parse error; the second Command holds the lock
C23_Witness ==
    /\ ops[1] = 2 /\ pc[1][1] = "write" /\ mu[1] = 1
    /\ Len(io[1]) = 2 /\ io[1][2].op = "r" /\ io[1][2].ok
    /\ Readings(io[1][2].data) = {} /\ io[1][2].data # <<>>
    /\ io[1][2].data # HangupLine

\* the number of lines of the stream that the construction of a session
\* consumes: the preamble lines and the terminator, or every line when there
\* is no terminator
ConstructionLines(lines) ==
    IF \E i \in 1..Len(lines) : DropCR(lines[i]) = <<>>
    THEN CHOOSE i \in 1..Len(lines) :
           /\ DropCR(lines[i]) = <<>>
           /\ \A j \in 1..(i - 1) : DropCR(lines[j]) # <<>>
    ELSE Len(lines)

\* the reads of session s before its i-th transfer that gave a line
LinesBefore(s, i) == Cardinality({j \in Reads(s) : j < i /\ io[s][j].ok})

\* C24: no input line is lost to buffering: the line a Command obtains is the
\* first line of the stream that neither the construction of the session nor
\* an earlier Command consumed, however the lines arrive, and a Command
\* finds the end of the stream only when no such line is left.
C24_NoLineLostToBuffering ==
    \A s \in Conns :
      built[s] = "done" =>
        \A i \in Reads(s) :
          LET n == ConstructionLines(script[s]) + LinesBefore(s, i) + 1 IN
          IF io[s][i].ok
          THEN /\ n <= Len(script[s])
               /\ io[s][i].data = DropCR(script[s][n])
          ELSE n > Len(script[s])

\* C25: Close calls of two callers that overlap in time on a session still
\* call the Close of the connection at most once, and neither call fails on
\* the reference the other one cleared.
C25_ConcurrentCloseOnce ==
    \A s \in Conns : closeRace[s] => (closes[s] <= 1 /\ ~crashed)

=============================================================================
